---- MODULE Spec2Model ----
(***************************************************************************)
(* Model of PDFCompressor (src/pdf_file_compressor.py): one call of        *)
(* compress_pdf, step by step, with compress_image as a pure operator.     *)
(* The PDF library (fitz) and the file system are the environment: their   *)
(* outcomes are drawn from small sets at the call that asks for them.      *)
(***************************************************************************)
EXTENDS Integers, Sequences, FiniteSets, TLC

\* ---- bounds ----
MaxPages == 2        \* pages of a source document
MaxImages == 2       \* embedded image references of a source document, all pages together

\* ---- values ----
Paths == {"p1", "p2"}
PageRects == {<<1, 2>>, <<2, 1>>}          \* (width, height) of a source page

None == [format |-> "None", mode |-> "None"]
NoImage == [decodable |-> FALSE, mode |-> "None", ext |-> "None"]   \* falsy extract_image result
NoRect == <<0, 0, 0, 0>>

\* results extract_image can hand back for an embedded image
ImageSamples ==
    { [decodable |-> FALSE, mode |-> "RGB",  ext |-> "jpeg"],
      [decodable |-> TRUE,  mode |-> "RGB",  ext |-> "jpeg"],
      [decodable |-> TRUE,  mode |-> "RGBA", ext |-> "png"],
      [decodable |-> TRUE,  mode |-> "RGB",  ext |-> "bmp"],
      [decodable |-> TRUE,  mode |-> "RGB",  ext |-> "jpx"] }

\* rectangles get_image_bbox can hand back: all-zero, zero-width, proper
Rects == { <<0, 0, 0, 0>>, <<1, 1, 1, 2>>, <<0, 0, 1, 1>> }

\* format names the image codec can write
CodecFormats == {"JPEG", "PNG", "BMP"}

SourcePage(r, k) == [width |-> r[1], height |-> r[2], images |-> k]

SeqsUpTo(S, n) == UNION { [1..k -> S] : k \in 0..n }

RECURSIVE ImageCount(_)
ImageCount(d) == IF d = <<>> THEN 0 ELSE Head(d).images + ImageCount(Tail(d))

SourceDocs ==
    { d \in SeqsUpTo({ SourcePage(r, k) : r \in PageRects, k \in 0..MaxImages }, MaxPages) :
        ImageCount(d) <= MaxImages }

Absent == [kind |-> "absent", pages |-> <<>>]
Other == [kind |-> "other", pages |-> <<>>]
Partial == [kind |-> "partial", pages |-> <<>>]
Pdf(pages) == [kind |-> "pdf", pages |-> pages]

Unbound == [status |-> "unbound", pages |-> <<>>]

VARIABLES
    input_path, output_path,   \* self.input_path, self.output_path
    fs,                        \* file system: path -> file content
    fs0,                       \* the file system as it was when the call started
    pdf_document, output_pdf,  \* the two document handles
    total_pages, page_num, images, img_index,
    base_image, compressed_bytes, image_rect,
    sizes_read,                \* how many of original_size, compressed_size are bound
    ncalls,                    \* calls made to the libraries so far
    logged,                    \* which error messages the logger has received
    err,                       \* exception travelling to the except clause
    result,                    \* return value of compress_pdf
    pc

vars == << input_path, output_path, fs, fs0, pdf_document, output_pdf,
           total_pages, page_num, images, img_index,
           base_image, compressed_bytes, image_rect,
           sizes_read, ncalls, logged, err, result, pc >>

CallNames == {"open", "save", "getsize", "close"}
ErrorMessages == {"Error compressing image", "Error compressing PDF"}

locals == << total_pages, page_num, images, img_index,
             base_image, compressed_bytes, image_rect, sizes_read >>
imgLocals == << base_image, compressed_bytes, image_rect >>
paths == << input_path, output_path, fs0 >>
docs == << pdf_document, output_pdf >>

\* ---- pure helpers ----
Lower(s) ==
    CASE s = "JPEG" -> "jpeg" [] s = "JPG" -> "jpg" [] s = "PNG" -> "png"
      [] s = "BMP" -> "bmp" [] s = "JPX" -> "jpx" [] OTHER -> s

Upper(s) ==
    CASE s = "jpeg" -> "JPEG" [] s = "jpg" -> "JPG" [] s = "png" -> "PNG"
      [] s = "bmp" -> "BMP" [] s = "jpx" -> "JPX" [] OTHER -> s

\* Image.save(format=f): the codec writes the formats it knows, raises otherwise
Encode(f, mode) == IF f \in CodecFormats THEN [format |-> f, mode |-> mode] ELSE None

compress_image(b) ==
    IF ~b.decodable THEN None                         \* Image.open raises, caught
    ELSE LET mode == IF b.mode \in {"RGBA", "LA"} THEN "RGB" ELSE b.mode
         IN  IF Lower(b.ext) \in {"jpg", "jpeg"} THEN Encode("JPEG", mode)
             ELSE IF Lower(b.ext) = "png" THEN Encode("PNG", mode)
             ELSE Encode(Upper(b.ext), mode)

\* truth value of a rectangle: false only when all four coordinates are zero
RectBool(r) == ~(r[1] = 0 /\ r[2] = 0 /\ r[3] = 0 /\ r[4] = 0)
IsEmpty(r) == r[1] >= r[3] \/ r[2] >= r[4]

Call(name) == ncalls' = [ncalls EXCEPT ![name] = @ + 1]

Raise(e) == /\ err' = e
            /\ pc' = "except"

AppendContent(item) ==
    output_pdf' = [output_pdf EXCEPT
        !.pages[Len(output_pdf.pages)].content = Append(@, item)]

NextImage == /\ img_index' = img_index + 1
             /\ pc' = "img_loop"

\* ---- initial state ----
Init ==
    /\ input_path = "p2"
    /\ output_path \in Paths
    /\ \E src \in {Absent, Other} \cup { Pdf(d) : d \in SourceDocs } :
       \E old \in IF output_path = input_path THEN {Absent} ELSE {Absent, Other} :
          fs = [p \in Paths |-> IF p = input_path THEN src ELSE old]
    /\ fs0 = fs
    /\ pdf_document = Unbound
    /\ output_pdf = Unbound
    /\ total_pages = 0
    /\ page_num = 0
    /\ images = 0
    /\ img_index = 0
    /\ base_image = NoImage
    /\ compressed_bytes = None
    /\ image_rect = NoRect
    /\ sizes_read = 0
    /\ ncalls = [c \in CallNames |-> 0]
    /\ logged = {}
    /\ err = "none"
    /\ result = "none"
    /\ pc = "start"

\* ---- compress_pdf, one action per step ----
\* variant: the existence check is left out
CheckExists_unchecked ==
    /\ pc = "start"
    /\ pc' = "open_src" /\ err' = err
    /\ UNCHANGED << paths, fs, docs, locals, ncalls, logged, result >>

CheckExists ==
    /\ pc = "start"
    /\ IF fs[input_path].kind = "absent"
       THEN Raise("FileNotFoundError")
       ELSE pc' = "open_src" /\ err' = err
    /\ UNCHANGED << paths, fs, docs, locals, ncalls, logged, result >>

OpenSource ==
    /\ pc = "open_src"
    /\ UNCHANGED logged
    /\ Call("open")
    /\ IF fs[input_path].kind = "pdf"
       THEN /\ pdf_document' = [status |-> "open", pages |-> fs[input_path].pages]
            /\ pc' = "open_out" /\ err' = err
       ELSE /\ Raise("OpenError")
            /\ UNCHANGED pdf_document
    /\ UNCHANGED << paths, fs, output_pdf, locals, result >>

OpenOutput ==
    /\ pc = "open_out"
    /\ UNCHANGED logged
    /\ Call("open")
    /\ output_pdf' = [status |-> "open", pages |-> <<>>]
    /\ total_pages' = Len(pdf_document.pages)
    /\ page_num' = 0
    /\ pc' = "page_loop"
    /\ UNCHANGED << paths, fs, pdf_document, images, img_index, imgLocals,
                    sizes_read, err, result >>

\* variant: the page loop stops one page early
PageLoop_short ==
    /\ pc = "page_loop"
    /\ IF page_num + 1 < total_pages
       THEN /\ images' = pdf_document.pages[page_num + 1].images
            /\ pc' = "new_page"
       ELSE /\ pc' = "save"
            /\ UNCHANGED images
    /\ UNCHANGED << paths, fs, docs, total_pages, page_num, img_index, imgLocals,
                    sizes_read, ncalls, logged, err, result >>

PageLoop ==
    /\ pc = "page_loop"
    /\ IF page_num < total_pages
       THEN /\ images' = pdf_document.pages[page_num + 1].images
            /\ pc' = "new_page"
       ELSE /\ pc' = "save"
            /\ UNCHANGED images
    /\ UNCHANGED << paths, fs, docs, total_pages, page_num, img_index, imgLocals,
                    sizes_read, ncalls, logged, err, result >>

\* variant: width and height handed over in the wrong order
NewPage_swapped ==
    /\ pc = "new_page"
    /\ LET page == pdf_document.pages[page_num + 1]
       IN  output_pdf' = [output_pdf EXCEPT !.pages =
               Append(@, [width |-> page.height, height |-> page.width, content |-> <<>>])]
    /\ pc' = "show"
    /\ UNCHANGED << paths, fs, pdf_document, locals, ncalls, logged, err, result >>

NewPage ==
    /\ pc = "new_page"
    /\ LET page == pdf_document.pages[page_num + 1]
       IN  output_pdf' = [output_pdf EXCEPT !.pages =
               Append(@, [width |-> page.width, height |-> page.height, content |-> <<>>])]
    /\ pc' = "show"
    /\ UNCHANGED << paths, fs, pdf_document, locals, ncalls, logged, err, result >>

\* variant: the source page is not copied into the new page
ShowPdfPage_nocopy ==
    /\ pc = "show"
    /\ \/ /\ img_index' = 0
          /\ pc' = "img_loop"
          /\ err' = err
       \/ /\ Raise("ReadError")
          /\ UNCHANGED img_index
    /\ UNCHANGED << paths, fs, docs, total_pages, page_num, images, imgLocals,
                    sizes_read, ncalls, logged, result >>

ShowPdfPage ==
    /\ pc = "show"
    /\ \/ /\ AppendContent([kind |-> "copy", of |-> page_num, rect |-> NoRect, stream |-> None])
          /\ img_index' = 0
          /\ pc' = "img_loop"
          /\ err' = err
       \/ /\ Raise("ReadError")
          /\ UNCHANGED << output_pdf, img_index >>
    /\ UNCHANGED << paths, fs, pdf_document, total_pages, page_num, images, imgLocals,
                    sizes_read, ncalls, logged, result >>

ImageLoop ==
    /\ pc = "img_loop"
    /\ IF img_index < images
       THEN pc' = "extract" /\ UNCHANGED page_num
       ELSE pc' = "page_loop" /\ page_num' = page_num + 1
    /\ UNCHANGED << paths, fs, docs, total_pages, images, img_index, imgLocals,
                    sizes_read, ncalls, logged, err, result >>

ExtractImage ==
    /\ pc = "extract"
    /\ \E b \in ImageSamples \cup {NoImage} :
          /\ base_image' = b
          /\ IF b # NoImage
             THEN pc' = "compress" /\ UNCHANGED img_index
             ELSE NextImage
    /\ UNCHANGED << paths, fs, docs, total_pages, page_num, images,
                    compressed_bytes, image_rect, sizes_read, ncalls, logged, err, result >>

\* variant: compress_image lets the codec's exception through
CompressImage_raises ==
    /\ pc = "compress"
    /\ IF compress_image(base_image) # None
       THEN /\ compressed_bytes' = compress_image(base_image)
            /\ pc' = "bbox" /\ err' = err
       ELSE /\ Raise("ImageError")
            /\ UNCHANGED compressed_bytes
    /\ UNCHANGED << paths, fs, docs, total_pages, page_num, images, img_index,
                    base_image, image_rect, sizes_read, ncalls, logged, result >>

CompressImage ==
    /\ pc = "compress"
    /\ compressed_bytes' = compress_image(base_image)
    /\ IF compressed_bytes' # None
       THEN /\ pc' = "bbox"
            /\ UNCHANGED << img_index, logged >>
       ELSE /\ NextImage
            /\ logged' = logged \cup {"Error compressing image"}
    /\ UNCHANGED << paths, fs, docs, total_pages, page_num, images,
                    base_image, image_rect, sizes_read, ncalls, err, result >>

GetImageBbox ==
    /\ pc = "bbox"
    /\ \/ \E r \in Rects :
            /\ image_rect' = r
            /\ IF RectBool(r)
               THEN pc' = "insert" /\ UNCHANGED img_index
               ELSE NextImage
            /\ err' = err
       \/ /\ Raise("BboxError")
          /\ UNCHANGED << img_index, image_rect >>
    /\ UNCHANGED << paths, fs, docs, total_pages, page_num, images,
                    base_image, compressed_bytes, sizes_read, ncalls, logged, result >>

InsertImage ==
    /\ pc = "insert"
    /\ IF IsEmpty(image_rect)
       THEN /\ Raise("InsertError")            \* the rectangle must not be empty
            /\ UNCHANGED << output_pdf, img_index >>
       ELSE /\ AppendContent([kind |-> "image", of |-> img_index,
                              rect |-> image_rect, stream |-> compressed_bytes])
            /\ NextImage
            /\ err' = err
    /\ UNCHANGED << paths, fs, pdf_document, total_pages, page_num, images, imgLocals,
                    sizes_read, ncalls, logged, result >>

Save ==
    /\ pc = "save"
    /\ UNCHANGED logged
    /\ Call("save")
    /\ IF Len(output_pdf.pages) = 0
       THEN /\ Raise("WriteError")              \* a document without pages cannot be saved
            /\ UNCHANGED fs
       ELSE \/ /\ fs' = [fs EXCEPT ![output_path] = Pdf(output_pdf.pages)]
               /\ pc' = "size_in"
               /\ err' = err
            \/ /\ Raise("WriteError")
               /\ \/ UNCHANGED fs                                  \* refused before writing
                  \/ fs' = [fs EXCEPT ![output_path] = Partial]    \* failed while writing
    /\ UNCHANGED << paths, docs, locals, result >>

GetSizeInput ==
    /\ pc = "size_in"
    /\ UNCHANGED logged
    /\ Call("getsize")
    /\ \/ /\ sizes_read' = sizes_read + 1
          /\ pc' = "size_out"
          /\ err' = err
       \/ /\ Raise("SizeError")
          /\ UNCHANGED sizes_read
    /\ UNCHANGED << paths, fs, docs, total_pages, page_num, images, img_index, imgLocals, result >>

GetSizeOutput ==
    /\ pc = "size_out"
    /\ UNCHANGED logged
    /\ Call("getsize")
    /\ \/ /\ sizes_read' = sizes_read + 1
          /\ pc' = "close_out"
          /\ err' = err
       \/ /\ Raise("SizeError")
          /\ UNCHANGED sizes_read
    /\ UNCHANGED << paths, fs, docs, total_pages, page_num, images, img_index, imgLocals, result >>

CloseOutput ==
    /\ pc = "close_out"
    /\ UNCHANGED logged
    /\ Call("close")
    /\ output_pdf' = [output_pdf EXCEPT !.status = "closed"]
    /\ pc' = "close_src"
    /\ UNCHANGED << paths, fs, pdf_document, locals, err, result >>

CloseSourceAndReturn ==
    /\ pc = "close_src"
    /\ UNCHANGED logged
    /\ Call("close")
    /\ pdf_document' = [pdf_document EXCEPT !.status = "closed"]
    /\ result' = "True"
    /\ pc' = "returned"
    /\ UNCHANGED << paths, fs, output_pdf, locals, err >>

\* variant: the except clause reports success
Except_true ==
    /\ pc = "except"
    /\ logged' = logged \cup {"Error compressing PDF"}
    /\ result' = "True"
    /\ pc' = "returned"
    /\ UNCHANGED << paths, fs, docs, locals, ncalls, err >>

Except ==
    /\ pc = "except"
    /\ logged' = logged \cup {"Error compressing PDF"}
    /\ result' = "False"
    /\ pc' = "returned"
    /\ UNCHANGED << paths, fs, docs, locals, ncalls, err >>

Next ==
    \/ CheckExists
    \/ OpenSource
    \/ OpenOutput
    \/ PageLoop
    \/ NewPage
    \/ ShowPdfPage
    \/ ImageLoop
    \/ ExtractImage
    \/ CompressImage
    \/ GetImageBbox
    \/ InsertImage
    \/ Save
    \/ GetSizeInput
    \/ GetSizeOutput
    \/ CloseOutput
    \/ CloseSourceAndReturn
    \/ Except

Spec == Init /\ [][Next]_vars

\* the call runs synchronously on the calling thread: every enabled step is taken
FairSpec == Spec /\ WF_vars(Next)


\* ---- shared vocabulary of the properties ----
Returned == pc = "returned"
OutPages == output_pdf.pages
SrcPages == pdf_document.pages
PageBodyPcs == {"show", "img_loop", "extract", "compress", "bbox", "insert"}
ImagesOf(page) == { k \in 1..Len(page.content) : page.content[k].kind = "image" }
WriteHappened == fs[output_path] # fs0[output_path]

\* ---- C1 ----
\* C1: when compress_pdf has returned, on any path, neither the source
\* document handle nor the output document handle is still open.
C1_HandlesReleased ==
    Returned => pdf_document.status # "open" /\ output_pdf.status # "open"

\* ---- C2 ----
C2_SameGeometry ==
    result = "True" =>
        /\ Len(OutPages) = Len(SrcPages)
        /\ \A i \in 1..Len(SrcPages) :
              /\ OutPages[i].width = SrcPages[i].width
              /\ OutPages[i].height = SrcPages[i].height
              /\ OutPages[i].content[1].of = i - 1

C2_OnePagePerSourcePage ==
    /\ pc \in PageBodyPcs => Len(OutPages) = page_num + 1
    /\ pc \in {"page_loop", "new_page", "save"} => Len(OutPages) = page_num

C2_OnlyNewPageAdds ==
    Len(OutPages') # Len(OutPages) =>
        /\ pc = "new_page"
        /\ Len(OutPages') = Len(OutPages) + 1
        /\ Len(OutPages) = page_num

\* C2: on success the output document has as many pages as the source, page i
\* has the width and height of source page i and is the copy of source page i;
\* only new_page changes the page count, once per source page, whatever
\* happens to the images of the page.
C2_PagesPreserved ==
    /\ [](C2_SameGeometry /\ C2_OnePagePerSourcePage)
    /\ [][C2_OnlyNewPageAdds]_vars

\* two pages of different shape, the first with a substituted image, the
\* second with images that were all skipped
C2_Witness ==
    /\ result = "True"
    /\ Len(OutPages) = 2
    /\ OutPages[1].width # OutPages[2].width
    /\ Len(OutPages[1].content) > 1
    /\ SrcPages[2].images > 0 /\ Len(OutPages[2].content) = 1

\* ---- C3 ----
C3_CompressStep ==
    pc = "compress" =>
        /\ err' = "none"
        /\ pc' \in {"bbox", "img_loop"}
        /\ compress_image(base_image) = None =>
              /\ pc' = "img_loop"
              /\ img_index' = img_index + 1
              /\ "Error compressing image" \in logged'
              /\ UNCHANGED << output_pdf, fs, page_num >>

C3_RunSurvives ==
    Returned /\ err = "none" =>
        /\ result = "True"
        /\ page_num = total_pages
        /\ Len(OutPages) = total_pages

\* C3: a decode or encode failure of one image leaves compress_image with the
\* value None and no exception: the image is skipped, the loop goes on with
\* the next image, and the call returns True unless some other step raises.
C3_ImageFailureAbsorbed ==
    /\ [][C3_CompressStep]_vars
    /\ []C3_RunSurvives

\* a run that logged an image error, still substituted another image, and
\* returned True
C3_Witness ==
    /\ result = "True"
    /\ "Error compressing image" \in logged
    /\ \E i \in 1..Len(OutPages) : ImagesOf(OutPages[i]) # {}

\* ---- C4 ----
C4_NothingTouched ==
    fs0[input_path].kind = "absent" =>
        /\ pc \in {"start", "except", "returned"}
        /\ pdf_document = Unbound /\ output_pdf = Unbound
        /\ \A c \in CallNames : ncalls[c] = 0
        /\ "Error compressing image" \notin logged
        /\ page_num = 0
        /\ fs = fs0
        /\ Returned => result = "False" /\ err = "FileNotFoundError"

\* C4: with no file at the input path the call returns False, opens neither
\* document, processes no page, and leaves the output path as it was.
C4_MissingInput == C4_NothingTouched

C4_Witness ==
    /\ Returned
    /\ fs0[input_path] = Absent
    /\ output_path # input_path
    /\ fs[output_path] = Other
    /\ result = "False"

\* ---- C5 ----
\* C5: after a failed call the output path either holds the fully saved
\* document with all N pages or holds what it held before the call.
C5_NoPartialOutput ==
    Returned /\ result = "False" =>
        \/ ~WriteHappened
        \/ /\ fs[output_path] = Pdf(OutPages)
           /\ Len(OutPages) = Len(SrcPages)

\* ---- C6 ----
C6_Outcome ==
    /\ Returned => result \in {"True", "False"}
    /\ ~Returned => result = "none"
    /\ err # "none" => pc \in {"except", "returned"}
    /\ Returned /\ err # "none" => result = "False"
    /\ result = "True" =>
          /\ err = "none"
          /\ fs0[input_path].kind = "pdf"
          /\ pdf_document.status # "unbound"
          /\ page_num = total_pages /\ total_pages = Len(SrcPages)
          /\ ncalls["save"] = 1
          /\ fs[output_path] = Pdf(OutPages)
          /\ sizes_read = 2

\* C6: every call ends, with True or with False and never with an exception;
\* True only after open, all pages, save and both size reads; every fatal
\* error gives False.
C6_TwoOutcomes ==
    /\ <>Returned
    /\ []C6_Outcome

\* the size of the saved output could not be read: the call failed after save
C6_Witness ==
    /\ Returned
    /\ result = "False"
    /\ err = "SizeError"
    /\ sizes_read = 1

\* ---- C7 ----
\* C7: the input file is never changed by the call, and no path other than
\* the output path is written.
C7_InputUntouched ==
    /\ fs[input_path] = fs0[input_path]
    /\ \A p \in Paths : p # output_path => fs[p] = fs0[p]

\* ---- C8 ----
PcRank ==
    CASE pc = "start" -> 0
      [] pc = "open_src" -> 1
      [] pc = "open_out" -> 2
      [] pc \in PageBodyPcs \cup {"page_loop", "new_page"} -> 3
      [] pc = "save" -> 4
      [] pc = "size_in" -> 5
      [] pc = "size_out" -> 6
      [] pc = "close_out" -> 7
      [] pc = "close_src" -> 8
      [] pc = "except" -> 9
      [] OTHER -> 10

C8_Steps ==
    /\ PcRank' >= PcRank
    /\ page_num' # page_num =>
          /\ page_num' = page_num + 1
          /\ pc = "img_loop" /\ img_index = images
          /\ Len(OutPages) = page_num + 1
    /\ ncalls'["save"] # ncalls["save"] =>
          /\ ncalls["save"] = 0
          /\ page_num = total_pages
          /\ Len(OutPages) = total_pages
          /\ total_pages = Len(SrcPages)
    /\ fs' # fs => ncalls'["save"] = 1 /\ ncalls["save"] = 0
    /\ ncalls'["getsize"] # ncalls["getsize"] =>
          /\ ncalls["save"] = 1
          /\ fs[output_path] = Pdf(OutPages)
    /\ err # "none" =>
          /\ pc = "except" /\ pc' = "returned"
          /\ UNCHANGED << fs, docs, ncalls, locals, err >>
          /\ logged' = logged \cup {"Error compressing PDF"}

\* C8: the steps run in the order open, pages 0..N-1 one by one, save, size
\* reads, done; one save at most and only after the last page; sizes only
\* after a completed save; after a failure nothing but the failure return.
C8_StepOrder ==
    /\ [][C8_Steps]_vars
    /\ [](ncalls["save"] <= 1 /\ ncalls["getsize"] <= 2)

C8_Witness ==
    /\ result = "True"
    /\ total_pages = 2
    /\ ncalls["save"] = 1
    /\ ncalls["getsize"] = 2

\* ---- C9 ----
\* C9: an image whose placement rectangle has no area is never handed to
\* insert_image, and the run never fails on such a rectangle.
C9_DegenerateRectSkipped ==
    /\ pc = "insert" => ~IsEmpty(image_rect)
    /\ err # "InsertError"

\* ---- C10 ----
C10_PageContent ==
    \A j \in 1..Len(OutPages) :
        LET c == OutPages[j].content
        IN  /\ c = <<>> => j = Len(OutPages) /\ pc \in {"show", "except", "returned"}
            /\ c # <<>> => c[1].kind = "copy" /\ c[1].of = j - 1
            /\ \A k \in 2..Len(c) :
                  /\ c[k].kind = "image"
                  /\ c[k].of \in 0..(SrcPages[j].images - 1)
                  /\ k > 2 => c[k - 1].of < c[k].of
            /\ SrcPages[j].images = 0 => Len(c) <= 1

C10_InsertStep ==
    /\ OutPages' # OutPages /\ pc \notin {"new_page", "show"} =>
          /\ pc = "insert"
          /\ base_image \in ImageSamples
          /\ compressed_bytes # None
          /\ compressed_bytes = compress_image(base_image)
          /\ RectBool(image_rect)
          /\ OutPages' = [OutPages EXCEPT ![page_num + 1].content =
                Append(@, [kind |-> "image", of |-> img_index,
                           rect |-> image_rect, stream |-> compressed_bytes])]
          /\ img_index' = img_index + 1
    /\ pc = "show" /\ pc' # "except" =>
          /\ OutPages[page_num + 1].content = <<>>
          /\ Len(OutPages'[page_num + 1].content) = 1
    /\ pc = "extract" /\ base_image' = NoImage =>
          /\ pc' = "img_loop" /\ img_index' = img_index + 1
          /\ err' = "none"
          /\ UNCHANGED << output_pdf, fs >>

\* C10: each output page gets the copy of its source page once and first;
\* an image goes in only after a fetch with data, a recompression with bytes
\* and a rectangle; a fetch without data is skipped and the run goes on; one
\* insertion per reference at most, in listing order; no insertion on a page
\* without images.
C10_CopyThenImages ==
    /\ []C10_PageContent
    /\ [][C10_InsertStep]_vars

\* first page: copy, then both of its images in order; second page: no images
C10_Witness ==
    /\ result = "True"
    /\ Len(OutPages) = 2
    /\ Len(OutPages[1].content) = 3
    /\ OutPages[1].content[2].of = 0 /\ OutPages[1].content[3].of = 1
    /\ SrcPages[2].images = 0 /\ Len(OutPages[2].content) = 1
====
